---- MODULE Spec2Model ----
(***************************************************************************)
(* Version-history resolution of api-kit (src/api-kit/src/metadata.rs).    *)
(*                                                                         *)
(* A VersionHistory records the unstable and stable path variants of an    *)
(* endpoint together with its deprecation and removal versions.  The       *)
(* resolver is given the list of versions a caller considers and picks the *)
(* variant to use, or reports that there is none.                          *)
(*                                                                         *)
(* Rust values are encoded as follows.                                     *)
(*   Option<T>           <<>> is None, <<x>> is Some(x)                    *)
(*   &[T]                a sequence                                        *)
(*   (V, Metadata)       a pair <<v, m>>                                   *)
(*   Metadata            a record holding the path template; a variant is  *)
(*                       returned by reference, and every slot of a        *)
(*                       history holds a template of its own, so that the  *)
(*                       template identifies the slot                      *)
(*   &str                a sequence of tokens: "/" is the character '/',   *)
(*                       "h" stands for a scheme and authority such as     *)
(*                       `http://host`, "{id}" for a template placeholder  *)
(*                       and the other tokens for text without a '/'       *)
(*   enum values         records with a tag field                          *)
(***************************************************************************)
EXTENDS Integers, Sequences, FiniteSets, TLC

\* Versions are 1..MaxVersion (V = i32 in the tests, any Ord type in general).
MaxVersion == 3
\* Longest stable_paths slice.
MaxStable == 2
\* Longest unstable_paths slice.
MaxUnstable == 2
\* Longest list of considered versions handed to a resolution call.
MaxVersions == 3
\* Longest base_url, in tokens.
MaxBaseUrl == 3
\* Threads calling into one shared history.
NumCallers == 2

VARIABLES
    history,      \* the VersionHistory the calls are made on (&self)
    versions,     \* the `versions: &[V]` argument of the calls
    added,        \* how many trailing elements of versions the caller appended last
    call,         \* the operation that returned last, "none" before any call
    result,       \* what it returned
    base_url,     \* the `base_url: &str` argument of the URL calls
    path_args,    \* their `path_args`: <<>> has no field `id`, <<x>> has id = x
    query_string, \* their `query_string`, already serialized; <<>> has no field
    variant,      \* the Metadata a direct make_url call was made on, if any
    constructed,  \* the argument lists construct_url was called with by the last call
    callers       \* the concurrent callers: each one's call, position and locals

vars == <<history, versions, added, call, result,
          base_url, path_args, query_string, variant, constructed, callers>>

resolution == <<history, versions>>
url_args == <<base_url, path_args, query_string>>

----------------------------------------------------------------------------
(* Values *)

None == <<>>
Some(x) == <<x>>

Version == 1..MaxVersion

SeqsUpTo(S, n) == UNION {[1..k -> S] : k \in 0..n}

\* Path templates of the doc example of history! ("/v1alpha1/endpoint",
\* "/v1/endpoint", "/v2/endpoint"), one per slot; the stable ones carry a
\* placeholder.
UnstableSegment == <<"a1", "a2", "a3", "a4">>
StableSegment == <<"v1", "v2", "v3", "v4">>

UnstableMetadata(i) == [path |-> <<"/", UnstableSegment[i], "/", "e">>]
StableMetadata(i) == [path |-> <<"/", StableSegment[i], "/", "{id}">>]

\* VersionHistory::new: the four fields, stored as given (nothing is sorted
\* or validated).
new(unstable_paths, stable_paths, deprecated, removed) ==
    [unstable_paths |-> unstable_paths,
     stable_paths   |-> stable_paths,
     deprecated     |-> deprecated,
     removed        |-> removed]

OptVersion == {None} \cup {Some(v) : v \in Version}

Histories ==
    {new([i \in 1..nu |-> UnstableMetadata(i)],
         [i \in 1..Len(vs) |-> <<vs[i], StableMetadata(i)>>],
         d, r) :
        nu \in 0..MaxUnstable, vs \in SeqsUpTo(Version, MaxStable),
        d \in OptVersion, r \in OptVersion}

VersionLists == SeqsUpTo(Version, MaxVersions)

BaseUrls == SeqsUpTo({"h", "/"}, MaxBaseUrl)
PathArgs == {<<>>, <<"7">>}
QueryStrings == {<<>>, <<"q">>}

\* enum VersioningDecision
Unstable == [tag |-> "Unstable"]
Removed == [tag |-> "Removed"]
Stable(any_deprecated, all_deprecated, any_removed) ==
    [tag |-> "Stable", any_deprecated |-> any_deprecated,
     all_deprecated |-> all_deprecated, any_removed |-> any_removed]

\* Result<T, IntoHttpError>, and a panic of the thread
Ok(x) == [tag |-> "Ok", val |-> x]
Err(e) == [tag |-> "Err", err |-> e]
Panic == [tag |-> "Panic"]

NoResult == [tag |-> "NoResult"]

Callers == 1..NumCallers

Operations == {"versioning_decision_for", "stable_endpoint_for",
               "select_endpoint", "make_endpoint_url"}

\* A caller that is in no call.
IdleCaller ==
    [pc |-> "idle", op |-> "none", versions |-> <<>>,
     decision |-> NoResult, selected |-> NoResult, ret |-> NoResult]

----------------------------------------------------------------------------
(* The resolver *)

\* Option::is_some_and; the closure is passed as a function on Version.
is_some_and(opt, f) == opt # None /\ f[opt[1]]

\* The closures of versioning_decision_for.
greater_or_equal_any_strict(vers, version) ==
    \E i \in 1..Len(vers) : vers[i] > version
\* The test made on the first version of the list alone.
greater_or_equal_first(vers, version) ==
    Len(vers) > 0 /\ vers[1] >= version
greater_or_equal_any(vers, version) ==
    \E i \in 1..Len(vers) : vers[i] >= version
\* The test failing on an empty list.
greater_or_equal_all_nonempty(vers, version) ==
    Len(vers) > 0 /\ \A i \in 1..Len(vers) : vers[i] >= version
greater_or_equal_all(vers, version) ==
    \A i \in 1..Len(vers) : vers[i] >= version

added_in_last(h) ==
    IF Len(h.stable_paths) = 0 THEN None
    ELSE Some(h.stable_paths[Len(h.stable_paths)][1])

\* The version of the first stable entry.
added_in(h) ==
    IF Len(h.stable_paths) = 0 THEN None ELSE Some(h.stable_paths[1][1])

versioning_decision_for_removed_any(h, vers) ==
    LET any == [version \in Version |-> greater_or_equal_any(vers, version)]
        all == [version \in Version |-> greater_or_equal_all(vers, version)]
    IN  IF is_some_and(h.removed, any)
        THEN Removed
        ELSE IF is_some_and(added_in(h), any)
        THEN LET all_deprecated == is_some_and(h.deprecated, all)
             IN  Stable(all_deprecated \/ is_some_and(h.deprecated, any),
                        all_deprecated,
                        is_some_and(h.removed, any))
        ELSE Unstable

versioning_decision_for_flags_all(h, vers) ==
    LET any == [version \in Version |-> greater_or_equal_any(vers, version)]
        all == [version \in Version |-> greater_or_equal_all(vers, version)]
    IN  IF is_some_and(h.removed, all)
        THEN Removed
        ELSE IF is_some_and(added_in(h), any)
        THEN LET all_deprecated == is_some_and(h.deprecated, all)
             IN  Stable(all_deprecated, all_deprecated,
                        is_some_and(h.removed, all))
        ELSE Unstable

versioning_decision_for(h, vers) ==
    LET any == [version \in Version |-> greater_or_equal_any(vers, version)]
        all == [version \in Version |-> greater_or_equal_all(vers, version)]
    IN  IF is_some_and(h.removed, all)
        THEN Removed
        ELSE IF is_some_and(added_in(h), any)
        THEN LET all_deprecated == is_some_and(h.deprecated, all)
             IN  Stable(all_deprecated \/ is_some_and(h.deprecated, any),
                        all_deprecated,
                        is_some_and(h.removed, any))
        ELSE Unstable

\* The reverse scan of stable_endpoint_for from slot i down to slot 1: the
\* position of the entry it stops at, 0 when it runs off the front.
RECURSIVE stable_scan(_, _, _)
stable_scan(h, vers, i) ==
    IF i = 0 THEN 0
    ELSE IF \E k \in 1..Len(vers) : vers[k] >= h.stable_paths[i][1]
         THEN i
         ELSE stable_scan(h, vers, i - 1)

\* The scan run from the front of the slice.
RECURSIVE stable_scan_forward(_, _, _)
stable_scan_forward(h, vers, i) ==
    IF i > Len(h.stable_paths) THEN 0
    ELSE IF \E k \in 1..Len(vers) : vers[k] >= h.stable_paths[i][1]
         THEN i
         ELSE stable_scan_forward(h, vers, i + 1)

stable_endpoint_for_forward(h, vers) ==
    LET i == stable_scan_forward(h, vers, 1)
    IN  IF i = 0 THEN None ELSE Some(h.stable_paths[i][2])

\* The scan with the test `versions.iter().all(|v| ver >= v)`.
RECURSIVE stable_scan_all_below(_, _, _)
stable_scan_all_below(h, vers, i) ==
    IF i = 0 THEN 0
    ELSE IF \A k \in 1..Len(vers) : h.stable_paths[i][1] >= vers[k]
         THEN i
         ELSE stable_scan_all_below(h, vers, i - 1)

stable_endpoint_for_all_below(h, vers) ==
    LET i == stable_scan_all_below(h, vers, Len(h.stable_paths))
    IN  IF i = 0 THEN None ELSE Some(h.stable_paths[i][2])

\* The scan with the test `versions.iter().any(|v| v > ver)`.
RECURSIVE stable_scan_strict(_, _, _)
stable_scan_strict(h, vers, i) ==
    IF i = 0 THEN 0
    ELSE IF \E k \in 1..Len(vers) : vers[k] > h.stable_paths[i][1]
         THEN i
         ELSE stable_scan_strict(h, vers, i - 1)

stable_endpoint_for_strict(h, vers) ==
    LET i == stable_scan_strict(h, vers, Len(h.stable_paths))
    IN  IF i = 0 THEN None ELSE Some(h.stable_paths[i][2])

stable_endpoint_for(h, vers) ==
    LET i == stable_scan(h, vers, Len(h.stable_paths))
    IN  IF i = 0 THEN None ELSE Some(h.stable_paths[i][2])

unstable_first(h) ==
    IF Len(h.unstable_paths) = 0 THEN None
    ELSE Some(h.unstable_paths[1])

\* The last unstable variant.
unstable(h) ==
    IF Len(h.unstable_paths) = 0 THEN None
    ELSE Some(h.unstable_paths[Len(h.unstable_paths)])

\* select_endpoint with the Removed arm falling back like the Unstable arm.
select_endpoint_removed_falls_back(h, vers) ==
    LET decision == versioning_decision_for(h, vers)
    IN  CASE decision.tag \in {"Unstable", "Removed"} ->
                IF unstable(h) = None THEN Err("NoUnstablePath")
                ELSE Ok(unstable(h)[1])
          [] decision.tag = "Stable" ->
                IF stable_endpoint_for(h, vers) = None THEN Panic
                ELSE Ok(stable_endpoint_for(h, vers)[1])

\* The match of select_endpoint on a decision.
select_endpoint_match(decision, h, vers) ==
    CASE decision.tag = "Unstable" ->
            IF unstable(h) = None THEN Err("NoUnstablePath")
            ELSE Ok(unstable(h)[1])
      [] decision.tag = "Stable" ->
            IF stable_endpoint_for(h, vers) = None THEN Panic
            ELSE Ok(stable_endpoint_for(h, vers)[1])
      [] decision.tag = "Removed" -> Err("EndpointRemoved")

select_endpoint(h, vers) ==
    select_endpoint_match(versioning_decision_for(h, vers), h, vers)

----------------------------------------------------------------------------
(* URL construction *)

\* str::strip_suffix and Option::unwrap_or
strip_suffix(s, c) ==
    IF Len(s) > 0 /\ s[Len(s)] = c THEN Some(SubSeq(s, 1, Len(s) - 1))
    ELSE None
unwrap_or(opt, default) == IF opt = None THEN default ELSE opt[1]

\* crate::url::construct_url: every placeholder of the template is filled
\* from path_args, an unfilled one is an error; the query follows a '?'.
construct_url(base, path, args, query) ==
    IF \E i \in 1..Len(path) : path[i] = "{id}" /\ args = <<>>
    THEN Err("Url")
    ELSE Ok(base
            \o [i \in 1..Len(path) |->
                   IF path[i] = "{id}" THEN args[1] ELSE path[i]]
            \o (IF query = <<>> THEN <<>> ELSE <<"?">> \o query))

\* http::Uri::try_from(String): the empty string is no URI, and a scheme can
\* only open the string.
UriTryFrom(s) ==
    IF s = <<>> \/ \E i \in 2..Len(s) : s[i] = "h" THEN Err("Http")
    ELSE Ok(s)

\* Metadata::make_url: what it returns, and its calls of construct_url.
make_url_keeps_base(meta, base, args, query) ==
    LET built == construct_url(base, meta.path, args, query)
    IN  [ret   |-> IF built.tag = "Err" THEN built ELSE UriTryFrom(built.val),
         calls |-> <<<<base, meta.path, args, query>>>>]

\* make_url with `base_url.trim_end_matches('/')`.
RECURSIVE trim_end_matches(_, _)
trim_end_matches(s, c) ==
    IF Len(s) > 0 /\ s[Len(s)] = c
    THEN trim_end_matches(SubSeq(s, 1, Len(s) - 1), c)
    ELSE s

make_url_trims_all(meta, base, args, query) ==
    LET stripped == trim_end_matches(base, "/")
        built == construct_url(stripped, meta.path, args, query)
    IN  [ret   |-> IF built.tag = "Err" THEN built ELSE UriTryFrom(built.val),
         calls |-> <<<<stripped, meta.path, args, query>>>>]

make_url(meta, base, args, query) ==
    LET stripped == unwrap_or(strip_suffix(base, "/"), base)
        built == construct_url(stripped, meta.path, args, query)
    IN  [ret   |-> IF built.tag = "Err" THEN built ELSE UriTryFrom(built.val),
         calls |-> <<<<stripped, meta.path, args, query>>>>]

\* make_endpoint_url using whatever variant there is when the selection fails.
make_endpoint_url_defaulting(h, vers, base, args, query) ==
    LET selected == select_endpoint(h, vers)
    IN  IF selected.tag = "Ok" THEN make_url(selected.val, base, args, query)
        ELSE IF Len(h.stable_paths) > 0
        THEN make_url(h.stable_paths[Len(h.stable_paths)][2], base, args, query)
        ELSE IF unstable(h) # None
        THEN make_url(unstable(h)[1], base, args, query)
        ELSE [ret |-> selected, calls |-> <<>>]

\* VersionHistory::make_endpoint_url: `?` returns the error of
\* select_endpoint, make_url runs on the selected variant otherwise.
make_endpoint_url(h, vers, base, args, query) ==
    LET selected == select_endpoint(h, vers)
    IN  IF selected.tag = "Ok" THEN make_url(selected.val, base, args, query)
        ELSE [ret |-> selected, calls |-> <<>>]

\* VersionHistory::all_paths
all_paths(h) ==
    {h.unstable_paths[i] : i \in 1..Len(h.unstable_paths)}
        \cup {h.stable_paths[i][2] : i \in 1..Len(h.stable_paths)}

----------------------------------------------------------------------------
(* Calls *)

Init ==
    /\ history \in Histories
    /\ versions \in VersionLists
    /\ added = 0
    /\ call = "none"
    /\ result = NoResult
    /\ base_url = <<>>
    /\ path_args = <<>>
    /\ query_string = <<>>
    /\ variant = None
    /\ constructed = <<>>
    /\ callers = [c \in Callers |-> IdleCaller]

VersioningDecisionFor ==
    /\ call' = "versioning_decision_for"
    /\ result' = versioning_decision_for(history, versions)
    /\ UNCHANGED <<resolution, added, url_args, variant, constructed, callers>>

StableEndpointFor ==
    /\ call' = "stable_endpoint_for"
    /\ result' = stable_endpoint_for(history, versions)
    /\ added' = 0
    /\ UNCHANGED <<resolution, url_args, variant, constructed, callers>>

\* The caller, holding the answer for its list, enlarges the list with
\* versions that are >= every version already in it (and will ask again).
Extend ==
    /\ call = "stable_endpoint_for"
    /\ added = 0
    /\ \E ext \in SeqsUpTo(Version, MaxVersions - Len(versions)) \ {<<>>} :
          /\ \A i \in 1..Len(versions), k \in 1..Len(ext) : ext[k] >= versions[i]
          /\ versions' = versions \o ext
          /\ added' = Len(ext)
    /\ UNCHANGED <<history, call, result, url_args, variant, constructed, callers>>

SelectEndpoint ==
    /\ call' = "select_endpoint"
    /\ result' = select_endpoint(history, versions)
    /\ UNCHANGED <<resolution, added, url_args, variant, constructed, callers>>

MakeUrl ==
    \E meta \in all_paths(history) :
        LET made == make_url(meta, base_url, path_args, query_string)
        IN  /\ call' = "make_url"
            /\ variant' = Some(meta)
            /\ result' = made.ret
            /\ constructed' = made.calls
            /\ UNCHANGED <<resolution, added, url_args, callers>>

MakeEndpointUrl ==
    LET made == make_endpoint_url(history, versions,
                                  base_url, path_args, query_string)
    IN  /\ call' = "make_endpoint_url"
        /\ variant' = None
        /\ result' = made.ret
        /\ constructed' = made.calls
        /\ UNCHANGED <<resolution, added, url_args, callers>>

\* One specification per operation: the caller holds a history and a list of
\* versions and makes the call, any number of times.
SpecDecision == Init /\ [][VersioningDecisionFor]_vars

SpecStable == Init /\ [][StableEndpointFor]_vars

SpecSelect == Init /\ [][SelectEndpoint]_vars

\* stable_endpoint_for reads stable_paths alone: the histories of the
\* monotonicity check have nothing else.
InitMono ==
    /\ Init
    /\ history.unstable_paths = <<>>
    /\ history.deprecated = None
    /\ history.removed = None

NextMono ==
    \/ StableEndpointFor
    \/ Extend

SpecMono == InitMono /\ [][NextMono]_vars

\* URL construction is checked on histories without deprecation and with at
\* most one unstable variant, for lists of at most one version: enough for
\* each outcome of select_endpoint and for a choice of variants.
InitUrl ==
    /\ history \in {h \in Histories :
                        h.deprecated = None /\ Len(h.unstable_paths) <= 1}
    /\ versions \in SeqsUpTo(Version, 1)
    /\ added = 0
    /\ call = "none"
    /\ result = NoResult
    /\ base_url \in BaseUrls
    /\ path_args \in PathArgs
    /\ query_string \in QueryStrings
    /\ variant = None
    /\ constructed = <<>>
    /\ callers = [c \in Callers |-> IdleCaller]

NextUrl ==
    \/ MakeUrl
    \/ MakeEndpointUrl

SpecUrl == InitUrl /\ [][NextUrl]_vars

----------------------------------------------------------------------------
(* Concurrent calls on one shared history *)

\* A caller enters one of the resolution operations with a list of its own.
Call(c) ==
    /\ callers[c].pc = "idle"
    /\ \E op \in Operations, vers \in SeqsUpTo(Version, 1) :
          callers' = [callers EXCEPT ![c] =
                         [IdleCaller EXCEPT !.pc = "called", !.op = op,
                                            !.versions = vers]]
    /\ UNCHANGED <<history, versions, added, call, result, url_args,
                   variant, constructed>>

\* The caller runs versioning_decision_for on the shared history.
Decide(c) ==
    /\ callers[c].pc = "called"
    /\ callers[c].op \in {"versioning_decision_for", "select_endpoint",
                          "make_endpoint_url"}
    /\ LET decision == versioning_decision_for(history, callers[c].versions)
       IN  callers' = [callers EXCEPT ![c] =
               IF callers[c].op = "versioning_decision_for"
               THEN [@ EXCEPT !.pc = "done", !.ret = decision]
               ELSE [@ EXCEPT !.pc = "decided", !.decision = decision]]
    /\ UNCHANGED <<history, versions, added, call, result, url_args,
                   variant, constructed>>

\* What the lookup of a caller yields: stable_endpoint_for itself, or the
\* match of select_endpoint on the decision the caller holds.
Looked(c) ==
    IF callers[c].op = "stable_endpoint_for"
    THEN stable_endpoint_for(history, callers[c].versions)
    ELSE select_endpoint_match(callers[c].decision, history,
                               callers[c].versions)

AfterLookup(c) ==
    [callers EXCEPT ![c] =
        IF callers[c].op = "make_endpoint_url"
        THEN [@ EXCEPT !.pc = "selected", !.selected = Looked(c)]
        ELSE [@ EXCEPT !.pc = "done", !.ret = Looked(c)]]

LookupReady(c) ==
    \/ callers[c].pc = "called" /\ callers[c].op = "stable_endpoint_for"
    \/ callers[c].pc = "decided"

\* A lookup that pops the entries it passes over off the shared table.
LookupConsuming(c) ==
    /\ LookupReady(c)
    /\ callers' = AfterLookup(c)
    /\ history' = [history EXCEPT !.stable_paths =
                       SubSeq(@, 1, stable_scan(history, callers[c].versions,
                                                Len(@)))]
    /\ UNCHANGED <<versions, added, call, result, url_args,
                   variant, constructed>>

\* The caller reads the variant off the shared history.
Lookup(c) ==
    /\ LookupReady(c)
    /\ callers' = AfterLookup(c)
    /\ UNCHANGED <<history, versions, added, call, result, url_args,
                   variant, constructed>>

\* make_endpoint_url goes on after select_endpoint: `?`, then make_url.
BuildUrl(c) ==
    /\ callers[c].pc = "selected"
    /\ callers' = [callers EXCEPT ![c] =
           [@ EXCEPT !.pc = "done",
                     !.ret = IF callers[c].selected.tag = "Ok"
                             THEN make_url(callers[c].selected.val, base_url,
                                           path_args, query_string).ret
                             ELSE callers[c].selected]]
    /\ UNCHANGED <<history, versions, added, call, result, url_args,
                   variant, constructed>>

\* The call returns to the caller.
Return(c) ==
    /\ callers[c].pc = "done"
    /\ callers' = [callers EXCEPT ![c] = IdleCaller]
    /\ UNCHANGED <<history, versions, added, call, result, url_args,
                   variant, constructed>>

\* The shared history is the one of the doc example of history!, with or
\* without its unstable variant and with any removal version.
InitConc ==
    /\ history \in {h \in Histories :
                        /\ Len(h.unstable_paths) <= 1
                        /\ Len(h.stable_paths) = 2
                        /\ h.stable_paths[1][1] = 1
                        /\ h.stable_paths[2][1] = 2
                        /\ h.deprecated = Some(2)}
    /\ versions = <<>>
    /\ added = 0
    /\ call = "none"
    /\ result = NoResult
    /\ base_url = <<"h", "/">>
    /\ path_args = <<"7">>
    /\ query_string = <<>>
    /\ variant = None
    /\ constructed = <<>>
    /\ callers = [c \in Callers |-> IdleCaller]

NextConc ==
    \E c \in Callers :
        \/ Call(c)
        \/ Decide(c)
        \/ Lookup(c)
        \/ BuildUrl(c)
        \/ Return(c)

SpecConc == InitConc /\ [][NextConc]_vars

----------------------------------------------------------------------------
(* Properties of versioning_decision_for (SpecDecision) *)

Decided == call = "versioning_decision_for"

\* `removed` is Some(r) and every considered version is >= r.
AllRemoved ==
    /\ history.removed # None
    /\ \A i \in 1..Len(versions) : versions[i] >= history.removed[1]

\* Some considered version is >= v.
SomeAtLeast(v) == \E i \in 1..Len(versions) : versions[i] >= v

\* The stable entries are in ascending order of version.
Ascending(stable_paths) ==
    \A i, j \in 1..Len(stable_paths) :
        i < j => stable_paths[i][1] <= stable_paths[j][1]

\* C1: versioning_decision_for returns Removed exactly when `removed` is
\* Some(r) and every considered version is >= r.
C1_RemovedExactlyWhenAllRemoved ==
    Decided => ((result = Removed) <=> AllRemoved)

\* C1 witness: Removed is returned although a considered version is also at
\* or above the first stable version.
C1_Witness ==
    /\ Decided
    /\ result = Removed
    /\ Len(history.stable_paths) > 0
    /\ SomeAtLeast(history.stable_paths[1][1])
    /\ Len(versions) > 1

\* C2: with stable entries in ascending order, a considered version at or
\* above the version of any stable entry makes the decision Stable, unless
\* `removed` is Some(r) and every considered version is >= r.
C2_StableForAnyStableEntry ==
    (Decided /\ Ascending(history.stable_paths)) =>
        \A j \in 1..Len(history.stable_paths) :
            (SomeAtLeast(history.stable_paths[j][1]) /\ ~AllRemoved)
                => result.tag = "Stable"

\* C2 witness: the entry reached is the second one, one considered version is
\* past both `deprecated` and `removed`, another is below the entry, and the
\* decision is Stable.
C2_Witness ==
    /\ Decided
    /\ Len(history.stable_paths) = 2
    /\ history.stable_paths[1][1] < history.stable_paths[2][1]
    /\ SomeAtLeast(history.stable_paths[2][1])
    /\ \E i \in 1..Len(versions) : versions[i] < history.stable_paths[2][1]
    /\ history.deprecated # None
    /\ history.removed # None
    /\ SomeAtLeast(history.removed[1])
    /\ SomeAtLeast(history.deprecated[1])
    /\ result.tag = "Stable"

\* C3: the flags of a Stable decision are: all_deprecated iff `deprecated` is
\* Some(d) and every considered version is >= d; any_deprecated iff
\* `deprecated` is Some(d) and some considered version is >= d; any_removed
\* iff `removed` is Some(r) and some considered version is >= r.
C3_StableFlags ==
    (Decided /\ result.tag = "Stable") =>
        /\ result.all_deprecated <=>
              (/\ history.deprecated # None
               /\ \A i \in 1..Len(versions) :
                      versions[i] >= history.deprecated[1])
        /\ result.any_deprecated <=>
              (history.deprecated # None /\ SomeAtLeast(history.deprecated[1]))
        /\ result.any_removed <=>
              (history.removed # None /\ SomeAtLeast(history.removed[1]))

\* C3 witness: stable [(1,A),(2,B)], deprecated = 2, removed = 3 and the
\* versions [1,2,3] give Stable{any_deprecated, !all_deprecated, any_removed}.
C3_Witness ==
    /\ Decided
    /\ Len(history.stable_paths) = 2
    /\ history.stable_paths[1][1] = 1
    /\ history.stable_paths[2][1] = 2
    /\ history.deprecated = Some(2)
    /\ history.removed = Some(3)
    /\ versions = <<1, 2, 3>>
    /\ result = Stable(TRUE, FALSE, TRUE)

\* C4: versioning_decision_for returns Unstable exactly when the Removed
\* condition fails and the history has no stable entry or no considered
\* version is >= the version of the first stable entry; the unstable variants
\* have no influence on the decision.
C4_UnstableExactlyWhenNotAdded ==
    Decided =>
        /\ (result = Unstable) <=>
              (/\ ~AllRemoved
               /\ \/ Len(history.stable_paths) = 0
                  \/ ~SomeAtLeast(history.stable_paths[1][1]))
        /\ \A nu \in 0..MaxUnstable :
              versioning_decision_for(
                  [history EXCEPT
                      !.unstable_paths = [i \in 1..nu |-> UnstableMetadata(i)]],
                  versions) = result

\* C4 witness: Unstable for a history that has stable entries but no unstable
\* variant, every considered version being below the first stable version.
C4_Witness ==
    /\ Decided
    /\ result = Unstable
    /\ Len(history.stable_paths) > 0
    /\ Len(history.unstable_paths) = 0
    /\ Len(versions) > 0
    /\ history.removed # None

----------------------------------------------------------------------------
(* Properties of select_endpoint (SpecSelect) *)

Selected == call = "select_endpoint"

\* C5: select_endpoint returns the last unstable variant (NoUnstablePath when
\* there is none) when the decision is Unstable, exactly the variant
\* stable_endpoint_for returns when it is Stable, and EndpointRemoved when it
\* is Removed; a Stable decision never yields an unstable variant.
C5_SelectComposesDecisionAndLookup ==
    Selected =>
        LET decision == versioning_decision_for(history, versions)
            found == stable_endpoint_for(history, versions)
            n == Len(history.unstable_paths)
        IN  /\ decision.tag = "Unstable" =>
                  result = IF n = 0 THEN Err("NoUnstablePath")
                           ELSE Ok(history.unstable_paths[n])
            /\ decision.tag = "Stable" =>
                  /\ found # None
                  /\ result = Ok(found[1])
                  /\ \A i \in 1..n : result.val # history.unstable_paths[i]
            /\ decision.tag = "Removed" => result = Err("EndpointRemoved")

\* C5 witness: an Unstable decision on a history with two unstable variants
\* and a stable entry returns the second unstable variant.
C5_Witness ==
    /\ Selected
    /\ versioning_decision_for(history, versions) = Unstable
    /\ Len(history.unstable_paths) = 2
    /\ Len(history.stable_paths) > 0
    /\ Len(versions) > 0
    /\ result = Ok(history.unstable_paths[2])

NoPaths == Len(history.stable_paths) = 0 /\ Len(history.unstable_paths) = 0

\* C6 as stated: a history with no stable entry and no unstable variant makes
\* select_endpoint fail with NoUnstablePath, whatever its markers.
C6_AlwaysNoUnstablePath ==
    (Selected /\ NoPaths) => result = Err("NoUnstablePath")

\* C6 amended: a history with no stable entry and no unstable variant makes
\* select_endpoint fail: with EndpointRemoved when `removed` is Some(r) and
\* every considered version is >= r, with NoUnstablePath otherwise.
C6_NoPathsAlwaysFails ==
    (Selected /\ NoPaths) =>
        result = IF AllRemoved THEN Err("EndpointRemoved")
                 ELSE Err("NoUnstablePath")

\* C6 witness: such a history with a removal version that one considered
\* version has reached and another has not: NoUnstablePath.
C6_Witness ==
    /\ Selected
    /\ NoPaths
    /\ history.removed # None
    /\ SomeAtLeast(history.removed[1])
    /\ ~AllRemoved
    /\ result = Err("NoUnstablePath")

----------------------------------------------------------------------------
(* Properties of stable_endpoint_for (SpecStable, SpecMono) *)

Found == call = "stable_endpoint_for"

Max(S) == CHOOSE x \in S : \A y \in S : y <= x

\* The positions of the stable entries some considered version has reached.
Reached == {j \in 1..Len(history.stable_paths) :
               SomeAtLeast(history.stable_paths[j][1])}

\* The version of the stable entry holding the variant m.
VersionOf(m) ==
    history.stable_paths[
        CHOOSE j \in 1..Len(history.stable_paths) :
            history.stable_paths[j][2] = m][1]

\* C7: stable_endpoint_for returns the variant of the last-positioned stable
\* entry whose version some considered version has reached, None exactly when
\* there is no such entry; with ascending entries that entry has the greatest
\* version that is <= the maximum considered version; `deprecated`, `removed`
\* and unstable_paths have no influence.
C7_LastReachedStableEntry ==
    (Found /\ added = 0) =>
        /\ (result = None) <=> (Reached = {})
        /\ Reached # {} =>
              /\ result = Some(history.stable_paths[Max(Reached)][2])
              /\ Ascending(history.stable_paths) =>
                    VersionOf(result[1]) =
                        Max({history.stable_paths[j][1] :
                                j \in {k \in 1..Len(history.stable_paths) :
                                          history.stable_paths[k][1]
                                              <= Max({versions[i] : i \in 1..Len(versions)})}})
        /\ stable_endpoint_for(new(<<>>, history.stable_paths, None, None),
                               versions) = result

\* C7 witness: two ascending entries, both reached, the second one returned,
\* although every considered version is at or past `removed`.
C7_Witness ==
    /\ Found
    /\ Len(history.stable_paths) = 2
    /\ history.stable_paths[1][1] < history.stable_paths[2][1]
    /\ Reached = {1, 2}
    /\ AllRemoved
    /\ Len(versions) > 1
    /\ result = Some(history.stable_paths[2][2])

\* C8: with ascending stable entries, when stable_endpoint_for returned the
\* entry of version v for a list and the list is then enlarged with versions
\* >= all of its versions, stable_endpoint_for on the enlarged list returns
\* an entry of version >= v, and never None.
C8_Monotonic ==
    (Found /\ added > 0 /\ Ascending(history.stable_paths) /\ result # None) =>
        LET later == stable_endpoint_for(history, versions)
        IN  /\ later # None
            /\ VersionOf(later[1]) >= VersionOf(result[1])

\* C8 witness: the enlarged list reaches a strictly newer entry than the one
\* returned for the list before.
C8_Witness ==
    /\ Found
    /\ added > 0
    /\ Ascending(history.stable_paths)
    /\ result # None
    /\ stable_endpoint_for(history, versions) # None
    /\ VersionOf(stable_endpoint_for(history, versions)[1])
          > VersionOf(result[1])

----------------------------------------------------------------------------
(* Properties of make_endpoint_url (SpecUrl) *)

UrlMade == call = "make_endpoint_url"

\* C9: make_endpoint_url returns the error of select_endpoint when it fails,
\* without calling construct_url; when select_endpoint succeeds with a
\* variant, it returns what make_url on that variant returns, construct_url
\* being called once, with the path template of that variant.
C9_NoSilentDefault ==
    UrlMade =>
        LET selected == select_endpoint(history, versions)
        IN  /\ selected.tag = "Err" =>
                  /\ result = selected
                  /\ constructed = <<>>
            /\ selected.tag = "Ok" =>
                  /\ result = make_url(selected.val, base_url,
                                       path_args, query_string).ret
                  /\ Len(constructed) = 1
                  /\ constructed[1][2] = selected.val.path
                  /\ constructed[1][3] = path_args
                  /\ constructed[1][4] = query_string

\* C9 witness: the endpoint is removed for the considered version; the
\* history has an unstable and a stable variant, whose URLs could be built
\* from the arguments, and EndpointRemoved is returned with no URL built.
C9_Witness ==
    /\ UrlMade
    /\ Len(history.unstable_paths) = 1
    /\ Len(history.stable_paths) > 0
    /\ Len(versions) = 1
    /\ \A m \in all_paths(history) :
          make_url(m, base_url, path_args, query_string).ret.tag = "Ok"
    /\ result = Err("EndpointRemoved")
    /\ constructed = <<>>

----------------------------------------------------------------------------
(* Properties of concurrent calls (SpecConc) *)

\* What the call of caller c returns when it runs alone on the history.
Alone(c) ==
    CASE callers[c].op = "versioning_decision_for" ->
            versioning_decision_for(history, callers[c].versions)
      [] callers[c].op = "stable_endpoint_for" ->
            stable_endpoint_for(history, callers[c].versions)
      [] callers[c].op = "select_endpoint" ->
            select_endpoint(history, callers[c].versions)
      [] callers[c].op = "make_endpoint_url" ->
            make_endpoint_url(history, callers[c].versions,
                              base_url, path_args, query_string).ret

\* C10: no step of a resolution call changes the history, and whatever the
\* interleaving of the callers, a finished call holds the result the same
\* call returns when it runs alone.
C10_CallsDoNotInterfere ==
    /\ [][history' = history]_vars
    /\ [](\A c \in Callers : callers[c].pc = "done" => callers[c].ret = Alone(c))

\* C10 witness: a caller has finished select_endpoint while another one, with
\* a different list and a different decision, is between its decision and
\* its lookup.
C10_Witness ==
    \E c, d \in Callers :
        /\ c # d
        /\ callers[c].pc = "done"
        /\ callers[c].op = "select_endpoint"
        /\ callers[c].ret.tag = "Ok"
        /\ callers[d].pc = "decided"
        /\ callers[d].versions # callers[c].versions
        /\ callers[d].decision.tag = "Stable"
        /\ callers[c].ret # select_endpoint(history, callers[d].versions)

----------------------------------------------------------------------------
(* Properties of make_url (SpecUrl) *)

UrlOfVariant == call = "make_url"

EndsInSlash(s) == Len(s) > 0 /\ s[Len(s)] = "/"

\* C11: make_url hands construct_url the base_url without its final '/' when
\* it ends in one (so a base ending in "//" still ends in one '/'), the
\* base_url itself otherwise, and the path template of the variant as it is.
C11_StripsOneTrailingSlash ==
    UrlOfVariant =>
        /\ Len(constructed) = 1
        /\ EndsInSlash(base_url) =>
              /\ Len(constructed[1][1]) = Len(base_url) - 1
              /\ constructed[1][1] \o <<"/">> = base_url
        /\ ~EndsInSlash(base_url) => constructed[1][1] = base_url
        /\ constructed[1][2] = variant[1].path

\* C11 witness: the base_url is "h//" and construct_url is handed "h/".
C11_Witness ==
    /\ UrlOfVariant
    /\ base_url = <<"h", "/", "/">>
    /\ constructed[1][1] = <<"h", "/">>
    /\ EndsInSlash(constructed[1][1])
    /\ variant[1].path[4] = "{id}"
    /\ constructed[1][2] = variant[1].path

----------------------------------------------------------------------------
(* The `expect` of select_endpoint (SpecSelect) *)

\* C12: whatever the order of the stable entries, select_endpoint does not
\* panic: when versioning_decision_for returns Stable, stable_endpoint_for
\* returns Some variant for the same versions.
C12_ExpectNeverFails ==
    /\ Selected => result # Panic
    /\ versioning_decision_for(history, versions).tag = "Stable" =>
          stable_endpoint_for(history, versions) # None

\* C12 witness: the stable entries are out of order, every considered version
\* is the version of the first entry, the decision is Stable and the variant
\* of the second entry is returned.
C12_Witness ==
    /\ Selected
    /\ ~Ascending(history.stable_paths)
    /\ versioning_decision_for(history, versions).tag = "Stable"
    /\ \A i \in 1..Len(versions) : versions[i] = history.stable_paths[1][1]
    /\ result = Ok(history.stable_paths[2][2])

----------------------------------------------------------------------------
(* The list of versions as a set (SpecStable) *)

Min(S) == CHOOSE x \in S : \A y \in S : x <= y

Elements(s) == {s[i] : i \in 1..Len(s)}

Reverse(s) == [i \in 1..Len(s) |-> s[Len(s) + 1 - i]]

\* The answers of versioning_decision_for and select_endpoint for vers.
Answers(vers) ==
    <<versioning_decision_for(history, vers), select_endpoint(history, vers)>>

\* C13: the three operations give the same answers for lists with the same
\* elements, in any order and with any repetition (here the list, and the
\* list read backwards followed by itself); for a non-empty list the
\* decision (and the selection) is the one for its least and greatest
\* version, and stable_endpoint_for the one for its greatest version.
C13_ListIsASet ==
    Found =>
        LET mine == Answers(versions)
            mixed == Reverse(versions) \o versions
        IN  /\ Answers(mixed) = mine
            /\ stable_endpoint_for(history, mixed) = result
            /\ Len(versions) > 0 =>
                  LET least == Min(Elements(versions))
                      greatest == Max(Elements(versions))
                  IN  /\ Answers(<<least, greatest>>) = mine
                      /\ stable_endpoint_for(history, <<greatest>>) = result

\* C13 witness: the list [3, 1, 3], out of order and with a repetition, on a
\* history where the version 1 alone and the version 3 alone are answered
\* differently from the list.
C13_Witness ==
    /\ Found
    /\ versions = <<3, 1, 3>>
    /\ result # None
    /\ stable_endpoint_for(history, <<1>>) # result
    /\ select_endpoint(history, <<1>>) # select_endpoint(history, versions)
    /\ select_endpoint(history, <<3>>) # select_endpoint(history, versions)

----------------------------------------------------------------------------
(* The empty list of versions (SpecSelect) *)

\* C14: for the empty list the decision is Removed when `removed` is set and
\* Unstable otherwise, never Stable, whatever the stable entries;
\* select_endpoint fails with EndpointRemoved when `removed` is set and
\* otherwise returns the last unstable variant, or NoUnstablePath without
\* one; stable_endpoint_for returns None.
C14_EmptyList ==
    /\ versioning_decision_for(history, <<>>) =
          IF history.removed # None THEN Removed ELSE Unstable
    /\ stable_endpoint_for(history, <<>>) = None
    /\ (Selected /\ versions = <<>>) =>
          result =
              IF history.removed # None THEN Err("EndpointRemoved")
              ELSE IF Len(history.unstable_paths) = 0 THEN Err("NoUnstablePath")
              ELSE Ok(history.unstable_paths[Len(history.unstable_paths)])

\* C14 witness: the empty list, on a history with stable entries, unstable
\* variants and a removal version: EndpointRemoved.
C14_Witness ==
    /\ Selected
    /\ versions = <<>>
    /\ Len(history.stable_paths) > 0
    /\ Len(history.unstable_paths) > 0
    /\ history.removed # None
    /\ result = Err("EndpointRemoved")

====
